---- MODULE Spec2Model ----
(***************************************************************************)
(* FORT validator: the RTR PDU handlers (src/rtr/pdu_handler.c) and the    *)
(* TAL dispatcher (src/object/tal.c) as state machines.                    *)
(*                                                                         *)
(* SpecRtr : one RTR connection served by the PDU handlers, next to a      *)
(*           delta store that publishes new tables.                        *)
(* SpecTal : perform_standalone_validation: spawn one worker per TAL,      *)
(*           join them, merge their tables.                                *)
(***************************************************************************)
EXTENDS Integers, Sequences, FiniteSets, TLC

(* ------------------------------ bounds --------------------------------- *)
\* VRPs that validation can produce
MaxVrp == 2
\* publications that change the table (caps current_serial)
MaxSerial == 2
\* inbound PDUs handled on one connection
MaxInbound == 2
\* TAL files found by foreach_file
MaxTals == 2
MaxLen == 6
MaxCerts == 2
MaxUris == 2
CountCap == 2

(* ----------------------------- constants ------------------------------- *)
PDU_TYPE_SERIAL_NOTIFY == 0
PDU_TYPE_SERIAL_QUERY == 1
PDU_TYPE_RESET_QUERY == 2
PDU_TYPE_CACHE_RESPONSE == 3
PDU_TYPE_IPV4_PREFIX == 4
PDU_TYPE_IPV6_PREFIX == 6
PDU_TYPE_END_OF_DATA == 7
PDU_TYPE_CACHE_RESET == 8
PDU_TYPE_ERROR_REPORT == 10

ERR_PDU_CORRUPT_DATA == 0
ERR_PDU_INTERNAL_ERROR == 1
ERR_PDU_NO_DATA_AVAILABLE == 2
ERR_PDU_UNSUP_PDU_TYPE == 5
\* highest error code of RFC 8210 section 10
ERR_PDU_MAX_CODE == 8

EINVAL == 22
EINTR == 4
EAGAIN == 11

NO_DATA_AVAILABLE == "NO_DATA_AVAILABLE"
NO_DIFF == "NO_DIFF"
DIFF_AVAILABLE == "DIFF_AVAILABLE"
DIFF_UNDETERMINED == "DIFF_UNDETERMINED"
\* value of last.status when the handler never called deltas_db_status
NOT_CONSULTED == "NOT_CONSULTED"

\* protocol versions 0 (RFC 6810) and 1 (RFC 8210)
Versions == {0, 1}
\* u_int16_t session ids, two representatives
SessionIds == {0, 1}
\* serials a router can ask for: every serial the store can reach, and one more
Serials == 0 .. (MaxSerial + 1)

(* ------------------------------- VRPs ---------------------------------- *)
\* ROA entries { asn, ip_family }: IPv4 and IPv6 ones alternate
Vrp(i) == [family |-> IF i % 2 = 1 THEN 4 ELSE 6, asn |-> i]
Vrps == { Vrp(i) : i \in 1 .. MaxVrp }
Tables == SUBSET Vrps

\* serialization order of a table: by (ip_family, asn)
VrpKey(v) == v.family * (MaxVrp + 1) + v.asn

RECURSIVE VrpSeq(_)
VrpSeq(t) ==
    IF t = {} THEN << >>
    ELSE LET v == CHOOSE x \in t : \A y \in t : VrpKey(x) <= VrpKey(y)
         IN  << v >> \o VrpSeq(t \ {v})

\* a struct db_table pointer: NULL, or a table holding a set of VRPs
NullDb == [isNull |-> TRUE, vrps |-> {}]
Table(t) == [isNull |-> FALSE, vrps |-> t]

(* ------------------------------ PDUs ----------------------------------- *)
\* the 8-byte header; NoHeader stands for a NULL header pointer
Header(version, type, session) ==
    [protocol_version |-> version, pdu_type |-> type, session_id |-> session]
NoHeader == [protocol_version |-> 0, pdu_type |-> -1, session_id |-> 0]

NoVrp == [family |-> 0, asn |-> 0]

\* an outbound PDU; fields a type does not carry are 0 / NoHeader / NoVrp
OutPdu(type, version, session, serial, code, hdr, vrp, flags) ==
    [type |-> type, version |-> version, session_id |-> session,
     serial |-> serial, code |-> code, hdr |-> hdr, vrp |-> vrp,
     flags |-> flags]

\* an inbound PDU as decoded from the wire
InPdu(type, version, session, serial, code) ==
    [type |-> type, version |-> version, session_id |-> session,
     serial |-> serial, error_code |-> code]
NoPdu == InPdu(-1, 0, 0, 0, 0)

(* ------------------------------ state ---------------------------------- *)
VARIABLES
    \* RTR side
    session_ids,    \* get_current_session_id: version -> session id
    store,          \* delta store: serial, table, history, has_data
    fd_closed,      \* the connection's socket was closed by a handler
    handled,        \* inbound PDUs handled on this connection
    sent,           \* outbound PDUs written on this connection, in order
    last,           \* what the last handler invocation saw and did
    exited,         \* err() ended the process
    \* TAL side
    pc,             \* position of perform_standalone_validation
    ntals,          \* .tal files of this run
    spawned,        \* files for which spawn_tal_thread was called
    threads,        \* SLIST of validation_thread records, head first
    recs,           \* the validation_thread records
    db,             \* perform_standalone_validation's db
    error,          \* perform_standalone_validation's error
    result,         \* what perform_standalone_validation returned
    published,      \* tables published from validation results
    \* a query handler taken one call at a time, next to the publisher
    query,
    \* one worker thread: do_file_validation down to the subtree walk
    walk,
    \* a TAL file and what read_content made of it
    talfile

rtrVars == << session_ids, store, fd_closed, handled, sent, last, exited >>
talVars == << pc, ntals, spawned, threads, recs, db, error, result, published >>
vars == << session_ids, store, fd_closed, handled, sent, last, exited,
           pc, ntals, spawned, threads, recs, db, error, result, published,
           query, walk, talfile >>
\* what the PDU handlers, and what the dispatcher, leave alone
nonRtrVars == << talVars, query, walk, talfile >>
nonTalVars == << rtrVars, query, walk, talfile >>

(* ------------------------- delta store (vrps) -------------------------- *)
\* a NULL serial pointer
NULL_SERIAL == -1

InitStore == [serial |-> 0, table |-> {}, history |-> << >>, has_data |-> FALSE]

\* publish(new_table): a changed table gets the next serial and its delta
publish(st, new) ==
    LET added == new \ st.table
        removed == st.table \ new
    IN  IF added # {} \/ removed # {}
        THEN [serial |-> st.serial + 1,
              table |-> new,
              history |-> Append(st.history,
                                 [serial |-> st.serial + 1,
                                  added |-> added, removed |-> removed]),
              has_data |-> TRUE]
        ELSE [st EXCEPT !.has_data = TRUE]

\* old deltas beyond the window are forgotten, oldest first
forget_oldest(st) == [st EXCEPT !.history = Tail(st.history)]

HistorySerials(st) == { st.history[i].serial : i \in 1 .. Len(st.history) }

get_last_serial_number(st) == st.serial

deltas_db_status(st, serial) ==
    IF ~st.has_data THEN NO_DATA_AVAILABLE
    ELSE IF serial = NULL_SERIAL THEN DIFF_AVAILABLE
    ELSE IF serial = st.serial THEN NO_DIFF
    ELSE IF serial \in HistorySerials(st) THEN DIFF_AVAILABLE
    ELSE DIFF_UNDETERMINED

\* the VRPs announced / withdrawn by the deltas after serial 'from'
RECURSIVE DeltaFold(_, _, _, _)
DeltaFold(h, from, add, del) ==
    IF h = << >> THEN [added |-> add, removed |-> del]
    ELSE LET d == Head(h)
         IN  IF d.serial <= from
             THEN DeltaFold(Tail(h), from, add, del)
             ELSE DeltaFold(Tail(h), from,
                            (add \ d.removed) \cup (d.added \ del),
                            (del \ d.added) \cup (d.removed \ add))

DeltaSince(st, from) == DeltaFold(st.history, from, {}, {})

(* --------------------------- PDU sender -------------------------------- *)
FLAG_WITHDRAWAL == 0
FLAG_ANNOUNCEMENT == 1

PayloadType(v) == IF v.family = 4 THEN PDU_TYPE_IPV4_PREFIX ELSE PDU_TYPE_IPV6_PREFIX

PayloadPdu(version, v, flags) ==
    OutPdu(PayloadType(v), version, 0, 0, 0, NoHeader, v, flags)

PayloadSeq(version, t, flags) ==
    LET s == VrpSeq(t)
    IN  [i \in 1 .. Len(s) |-> PayloadPdu(version, s[i], flags)]

\* each sender writes its PDU and returns 0
init_sender_common(version, session_id, start_serial, end_serial) ==
    [version |-> version, session_id |-> session_id,
     start_serial |-> start_serial, end_serial |-> end_serial]

send_cache_response_pdu(common) ==
    [out |-> << OutPdu(PDU_TYPE_CACHE_RESPONSE, common.version, common.session_id,
                       0, 0, NoHeader, NoVrp, 0) >>,
     error |-> 0]

\* full snapshot without a start serial, else the delta since it
send_payload_pdus(st, common) ==
    [out |-> IF common.start_serial = NULL_SERIAL
             THEN PayloadSeq(common.version, st.table, FLAG_ANNOUNCEMENT)
             ELSE LET d == DeltaSince(st, common.start_serial)
                  IN  PayloadSeq(common.version, d.removed, FLAG_WITHDRAWAL)
                      \o PayloadSeq(common.version, d.added, FLAG_ANNOUNCEMENT),
     error |-> 0]

send_end_of_data_pdu(common) ==
    [out |-> << OutPdu(PDU_TYPE_END_OF_DATA, common.version, common.session_id,
                       common.end_serial, 0, NoHeader, NoVrp, 0) >>,
     error |-> 0]

send_cache_reset_pdu(common) ==
    [out |-> << OutPdu(PDU_TYPE_CACHE_RESET, common.version, 0,
                       0, 0, NoHeader, NoVrp, 0) >>,
     error |-> 0]

\* RFC 8210 section 10: only No Data Available is not fatal
err_pdu_is_fatal(code) == code # ERR_PDU_NO_DATA_AVAILABLE

\* sends the Error Report and closes the socket after a fatal code
err_pdu_send(version, code, hdr) ==
    [out |-> << OutPdu(PDU_TYPE_ERROR_REPORT, version, 0, 0, code, hdr, NoVrp, 0) >>,
     error |-> 0,
     closed |-> err_pdu_is_fatal(code)]

(* --------------------------- PDU handlers ------------------------------ *)
\* what one handler invocation did: PDUs written, return value, whether it
\* closed the socket, the deltas_db_status() it got, whether err() exited
Effect(out, ret, closed, status, exit) ==
    [out |-> out, ret |-> ret, closed |-> closed, status |-> status, exited |-> exit]

OfSend(r, status) == Effect(r.out, r.error, FALSE, status, FALSE)
OfErrPdu(r, status) == Effect(r.out, r.error, r.closed, status, FALSE)

get_current_session_id(version) == session_ids[version]

\* mutant: the protocol violation is answered but not reported to the caller
warn_unexpected_pdu_returns_ok(pdu) ==
    LET r == err_pdu_send(pdu.version, ERR_PDU_UNSUP_PDU_TYPE,
                          Header(pdu.version, pdu.type, pdu.session_id))
    IN  Effect(r.out, 0, r.closed, NOT_CONSULTED, FALSE)

warn_unexpected_pdu(pdu) ==
    LET r == err_pdu_send(pdu.version, ERR_PDU_UNSUP_PDU_TYPE,
                          Header(pdu.version, pdu.type, pdu.session_id))
    IN  Effect(r.out, -EINVAL, r.closed, NOT_CONSULTED, FALSE)

\* mutant: End of Data is sent before the payload PDUs
send_commmon_exchange_end_first(st, common) ==
    LET r1 == send_cache_response_pdu(common)
    IN  IF r1.error # 0 THEN r1
        ELSE LET r3 == send_end_of_data_pdu(common)
             IN  IF r3.error # 0
                 THEN [out |-> r1.out \o r3.out, error |-> r3.error]
                 ELSE LET r2 == send_payload_pdus(st, common)
                      IN  [out |-> r1.out \o r3.out \o r2.out, error |-> r2.error]

\* mutant: the payload PDUs are left out of the exchange
send_commmon_exchange_no_payloads(st, common) ==
    LET r1 == send_cache_response_pdu(common)
    IN  IF r1.error # 0 THEN r1
        ELSE LET r3 == send_end_of_data_pdu(common)
             IN  [out |-> r1.out \o r3.out, error |-> r3.error]

send_commmon_exchange(st, common) ==
    LET r1 == send_cache_response_pdu(common)
    IN  IF r1.error # 0 THEN r1
        ELSE LET r2 == send_payload_pdus(st, common)
             IN  IF r2.error # 0
                 THEN [out |-> r1.out \o r2.out, error |-> r2.error]
                 ELSE LET r3 == send_end_of_data_pdu(common)
                      IN  [out |-> r1.out \o r2.out \o r3.out, error |-> r3.error]

\* case NO_DATA_AVAILABLE of the serial query
serial_query_no_data_available(version) ==
    err_pdu_send(version, ERR_PDU_NO_DATA_AVAILABLE, NoHeader)

\* mutant: the empty database is reported with a fatal code
reset_query_no_data_available_fatal(version) ==
    err_pdu_send(version, ERR_PDU_INTERNAL_ERROR, NoHeader)

\* case NO_DATA_AVAILABLE of the reset query
reset_query_no_data_available(version) ==
    err_pdu_send(version, ERR_PDU_NO_DATA_AVAILABLE, NoHeader)

\* mutant: an unknown serial is answered like an empty database
serial_query_diff_undetermined_no_data(common) ==
    [out |-> err_pdu_send(common.version, ERR_PDU_NO_DATA_AVAILABLE, NoHeader).out,
     error |-> 0]

\* case DIFF_UNDETERMINED of the serial query
serial_query_diff_undetermined(common) ==
    send_cache_reset_pdu(common)

\* mutant: the exchange of the TODO comment is enabled
serial_query_diff_available_exchange(st, common) ==
    send_commmon_exchange(st, common)

\* case DIFF_AVAILABLE of the serial query: the diff between serials is not
\* served, the answer is a cache reset
serial_query_diff_available(st, common) ==
    send_cache_reset_pdu(common)

\* mutant: the exchange is not closed by End of Data
serial_query_no_diff_no_end(common) ==
    send_cache_response_pdu(common)

\* case NO_DIFF of the serial query: the exchange without payloads
serial_query_no_diff(common) ==
    LET r1 == send_cache_response_pdu(common)
    IN  IF r1.error # 0 THEN r1
        ELSE LET r2 == send_end_of_data_pdu(common)
             IN  [out |-> r1.out \o r2.out, error |-> r2.error]

\* mutant: the session id of the query is compared with itself
serial_query_session_mismatch_self(received, session_id) ==
    received.session_id # received.session_id

\* the session id check that opens the serial query handler
serial_query_session_mismatch(received, session_id) ==
    received.session_id # session_id

handle_serial_query_pdu(st, received) ==
    LET version == received.version
        session_id == get_current_session_id(version)
    IN  IF serial_query_session_mismatch(received, session_id)
        THEN OfErrPdu(err_pdu_send(version, ERR_PDU_CORRUPT_DATA, NoHeader),
                      NOT_CONSULTED)
        ELSE
        LET current_serial == get_last_serial_number(st)
            common == init_sender_common(version, session_id,
                                         received.serial, current_serial)
            updates == deltas_db_status(st, common.start_serial)
        IN  CASE updates = NO_DATA_AVAILABLE ->
                   OfErrPdu(serial_query_no_data_available(version), updates)
              [] updates = DIFF_UNDETERMINED ->
                   OfSend(serial_query_diff_undetermined(common), updates)
              [] updates = DIFF_AVAILABLE ->
                   OfSend(serial_query_diff_available(st, common), updates)
              [] updates = NO_DIFF ->
                   OfSend(serial_query_no_diff(common), updates)
              [] OTHER ->
                   Effect(<< >>, -EINVAL, FALSE, updates, TRUE)

handle_reset_query_pdu(st, received) ==
    LET version == received.version
        session_id == get_current_session_id(version)
        current_serial == get_last_serial_number(st)
        common == init_sender_common(version, session_id, NULL_SERIAL, current_serial)
        updates == deltas_db_status(st, NULL_SERIAL)
    IN  CASE updates = NO_DATA_AVAILABLE ->
               OfErrPdu(reset_query_no_data_available(version), updates)
          [] updates = DIFF_AVAILABLE ->
               OfSend(send_commmon_exchange(st, common), updates)
          [] OTHER ->
               Effect(<< >>, -EINVAL, FALSE, updates, TRUE)

\* mutant: every error report closes the socket
handle_error_report_pdu_always_close(received) ==
    Effect(<< >>, 0, TRUE, NOT_CONSULTED, FALSE)

handle_error_report_pdu(received) ==
    Effect(<< >>, 0, err_pdu_is_fatal(received.error_code), NOT_CONSULTED, FALSE)

(* ------------------------- RTR connection ------------------------------ *)
\* what a handler can read of the store: serial, table, whether data exists
StoreView(st) == [serial |-> st.serial, table |-> st.table, has_data |-> st.has_data]

NoLast == [pdu |-> NoPdu, out |-> << >>, ret |-> 0, status |-> NOT_CONSULTED,
           db |-> StoreView(InitStore), delta |-> DeltaSince(InitStore, 0)]

\* the verdict on the session after a handler: a handler ends the session by
\* closing the socket or by returning an error to the connection loop
SessionVerdict == IF fd_closed \/ last.ret # 0 THEN "close" ELSE "keep_open"

InitRtr ==
    /\ session_ids \in { f \in [Versions -> SessionIds] : f[0] # f[1] }
    /\ store = InitStore
    /\ fd_closed = FALSE
    /\ handled = 0
    /\ sent = << >>
    /\ last = NoLast
    /\ exited = FALSE

\* the connection loop hands one decoded PDU to its handler
CanHandle ==
    /\ ~exited
    /\ SessionVerdict = "keep_open"
    /\ handled < MaxInbound

Apply(pdu, e) ==
    /\ sent' = sent \o e.out
    /\ last' = [pdu |-> pdu, out |-> e.out, ret |-> e.ret, status |-> e.status,
                db |-> StoreView(store),
                delta |-> IF pdu.type = PDU_TYPE_SERIAL_QUERY
                          THEN DeltaSince(store, pdu.serial)
                          ELSE DeltaSince(InitStore, 0)]
    /\ fd_closed' = e.closed
    /\ exited' = e.exited
    /\ handled' = handled + 1
    /\ UNCHANGED << session_ids, store >>

Unexpected(type) ==
    /\ CanHandle
    /\ \E v \in Versions, s \in SessionIds :
         LET pdu == InPdu(type, v, s, 0, 0)
         IN  Apply(pdu, warn_unexpected_pdu(pdu))

HandleSerialNotify == Unexpected(PDU_TYPE_SERIAL_NOTIFY) /\ UNCHANGED nonRtrVars

HandleSerialQuery ==
    /\ CanHandle
    /\ \E v \in Versions, s \in SessionIds, n \in Serials :
         LET pdu == InPdu(PDU_TYPE_SERIAL_QUERY, v, s, n, 0)
         IN  Apply(pdu, handle_serial_query_pdu(store, pdu))
    /\ UNCHANGED nonRtrVars

HandleResetQuery ==
    /\ CanHandle
    /\ \E v \in Versions :
         LET pdu == InPdu(PDU_TYPE_RESET_QUERY, v, 0, 0, 0)
         IN  Apply(pdu, handle_reset_query_pdu(store, pdu))
    /\ UNCHANGED nonRtrVars

HandleCacheResponse == Unexpected(PDU_TYPE_CACHE_RESPONSE) /\ UNCHANGED nonRtrVars

HandleIpv4Prefix == Unexpected(PDU_TYPE_IPV4_PREFIX) /\ UNCHANGED nonRtrVars

HandleIpv6Prefix == Unexpected(PDU_TYPE_IPV6_PREFIX) /\ UNCHANGED nonRtrVars

HandleEndOfData == Unexpected(PDU_TYPE_END_OF_DATA) /\ UNCHANGED nonRtrVars

HandleCacheReset == Unexpected(PDU_TYPE_CACHE_RESET) /\ UNCHANGED nonRtrVars

HandleErrorReport ==
    /\ CanHandle
    /\ \E v \in Versions, c \in 0 .. ERR_PDU_MAX_CODE :
         LET pdu == InPdu(PDU_TYPE_ERROR_REPORT, v, 0, 0, c)
         IN  Apply(pdu, handle_error_report_pdu(pdu))
    /\ UNCHANGED nonRtrVars

\* a router connects: each connection starts without state
Accept ==
    /\ ~exited
    /\ handled > 0
    /\ fd_closed' = FALSE
    /\ handled' = 0
    /\ sent' = << >>
    /\ last' = NoLast
    /\ UNCHANGED << session_ids, store, exited >>
    /\ UNCHANGED nonRtrVars

\* the validation cycle publishes a table
Publish ==
    /\ ~exited
    /\ \E t \in Tables :
         /\ t # store.table => store.serial < MaxSerial
         /\ store' = publish(store, t)
    /\ UNCHANGED << session_ids, fd_closed, handled, sent, last, exited >>
    /\ UNCHANGED nonRtrVars

ForgetDelta ==
    /\ ~exited
    /\ store.history # << >>
    /\ store' = forget_oldest(store)
    /\ UNCHANGED << session_ids, fd_closed, handled, sent, last, exited >>
    /\ UNCHANGED nonRtrVars

InitTalIdle ==
    /\ pc = "idle"
    /\ ntals = 0
    /\ spawned = 0
    /\ threads = << >>
    /\ recs = << >>
    /\ db = NullDb
    /\ error = 0
    /\ result = NullDb
    /\ published = FALSE

\* no query is being handled one call at a time
NoQuery ==
    [pc |-> "idle", pdu |-> NoPdu, session_id |-> 0, current_serial |-> 0,
     updates |-> NOT_CONSULTED, out |-> << >>, ret |-> 0,
     status_serial |-> 0, payload_serial |-> 0]

\* no worker is being followed
Certs == 1 .. MaxCerts
NoWalk ==
    [pc |-> "idle", tal_error |-> 0, nuris |-> 0, i |-> 0, attempts |-> << >>,
     download_error |-> 0, error |-> 0, exit |-> "none", root_ok |-> FALSE,
     table |-> {}, emitted |-> {}, stack |-> << >>, visited |-> {},
     failed |-> {}, skipped |-> {},
     popped |-> [c \in Certs |-> 0], traversed |-> [c \in Certs |-> 0],
     uri_put |-> [c \in Certs |-> 0], rpp_put |-> [c \in Certs |-> 0],
     thread_error |-> 0, thread_db |-> NullDb]

\* no TAL file is loaded
NoTalFile ==
    [pc |-> "idle", fc |-> << >>, empty_decodes |-> FALSE,
     tal |-> [error |-> 0, msg |-> "none", uris |-> << >>]]

InitOthers ==
    /\ query = NoQuery
    /\ walk = NoWalk
    /\ talfile = NoTalFile

Init == InitRtr /\ InitTalIdle /\ InitOthers

NextRtr ==
    \/ HandleSerialNotify
    \/ HandleSerialQuery
    \/ HandleResetQuery
    \/ HandleCacheResponse
    \/ HandleIpv4Prefix
    \/ HandleIpv6Prefix
    \/ HandleEndOfData
    \/ HandleCacheReset
    \/ HandleErrorReport
    \/ Accept
    \/ Publish
    \/ ForgetDelta

SpecRtr == Init /\ [][NextRtr]_vars

(* ------------- query handlers, one call into the store at a time ------- *)
\* The handlers take no lock of their own: get_last_serial_number,
\* deltas_db_status and send_payload_pdus each read the store on their own,
\* and the validation thread can publish between two of them.
QueryCommon ==
    init_sender_common(query.pdu.version, query.session_id,
                       IF query.pdu.type = PDU_TYPE_RESET_QUERY
                       THEN NULL_SERIAL ELSE query.pdu.serial,
                       query.current_serial)

QueryFrame == UNCHANGED << rtrVars, talVars, walk, talfile >>

\* handle_reset_query_pdu is entered and reads the session id
ResetQueryBegin ==
    /\ query.pc = "idle"
    /\ handled < MaxInbound
    /\ \E v \in Versions :
         query' = [NoQuery EXCEPT
                     !.pc = "read_serial",
                     !.pdu = InPdu(PDU_TYPE_RESET_QUERY, v, 0, 0, 0),
                     !.session_id = get_current_session_id(v)]
    /\ QueryFrame

\* handle_serial_query_pdu is entered, reads the session id and checks it
SerialQueryBegin ==
    /\ query.pc = "idle"
    /\ handled < MaxInbound
    /\ \E v \in Versions, sid \in SessionIds, n \in Serials :
         LET pdu == InPdu(PDU_TYPE_SERIAL_QUERY, v, sid, n, 0)
             session_id == get_current_session_id(v)
         IN  IF serial_query_session_mismatch(pdu, session_id)
             THEN LET r == err_pdu_send(v, ERR_PDU_CORRUPT_DATA, NoHeader)
                  IN  query' = [NoQuery EXCEPT !.pc = "done", !.pdu = pdu,
                                               !.session_id = session_id,
                                               !.out = r.out, !.ret = r.error]
             ELSE query' = [NoQuery EXCEPT !.pc = "read_serial", !.pdu = pdu,
                                           !.session_id = session_id]
    /\ QueryFrame

\* current_serial = get_last_serial_number()
QueryReadSerial ==
    /\ query.pc = "read_serial"
    /\ query' = [query EXCEPT !.pc = "read_status",
                              !.current_serial = get_last_serial_number(store)]
    /\ QueryFrame

\* updates = deltas_db_status(NULL) and the switch of the reset query
ResetQueryStatus ==
    /\ query.pc = "read_status"
    /\ query.pdu.type = PDU_TYPE_RESET_QUERY
    /\ LET updates == deltas_db_status(store, NULL_SERIAL)
           q == [query EXCEPT !.updates = updates, !.status_serial = store.serial]
       IN  CASE updates = NO_DATA_AVAILABLE ->
                  LET r == reset_query_no_data_available(query.pdu.version)
                  IN  query' = [q EXCEPT !.pc = "done", !.out = r.out,
                                         !.ret = r.error]
             [] updates = DIFF_AVAILABLE ->
                  query' = [q EXCEPT !.pc = "cache_response"]
             [] OTHER ->
                  query' = [q EXCEPT !.pc = "exited", !.ret = -EINVAL]
    /\ QueryFrame

\* updates = deltas_db_status(start_serial) and the switch of the serial
\* query, but for the sends of case NO_DIFF
SerialQueryStatus ==
    /\ query.pc = "read_status"
    /\ query.pdu.type = PDU_TYPE_SERIAL_QUERY
    /\ LET updates == deltas_db_status(store, QueryCommon.start_serial)
           q == [query EXCEPT !.updates = updates, !.status_serial = store.serial]
       IN  CASE updates = NO_DATA_AVAILABLE ->
                  LET r == serial_query_no_data_available(query.pdu.version)
                  IN  query' = [q EXCEPT !.pc = "done", !.out = r.out,
                                         !.ret = r.error]
             [] updates = DIFF_UNDETERMINED ->
                  LET r == serial_query_diff_undetermined(QueryCommon)
                  IN  query' = [q EXCEPT !.pc = "done", !.out = r.out,
                                         !.ret = r.error]
             [] updates = DIFF_AVAILABLE ->
                  LET r == serial_query_diff_available(store, QueryCommon)
                  IN  query' = [q EXCEPT !.pc = "done", !.out = r.out,
                                         !.ret = r.error]
             [] updates = NO_DIFF ->
                  query' = [q EXCEPT !.pc = "cache_response"]
             [] OTHER ->
                  query' = [q EXCEPT !.pc = "exited", !.ret = -EINVAL]
    /\ QueryFrame

\* send_cache_response_pdu; the reset query goes on with the payloads, the
\* serial query with End of Data
QuerySendCacheResponse ==
    /\ query.pc = "cache_response"
    /\ LET r == send_cache_response_pdu(QueryCommon)
       IN  query' = [query EXCEPT
                       !.out = @ \o r.out,
                       !.ret = r.error,
                       !.pc = IF r.error # 0 THEN "done"
                              ELSE IF query.pdu.type = PDU_TYPE_RESET_QUERY
                              THEN "payloads" ELSE "end_of_data"]
    /\ QueryFrame

\* send_payload_pdus reads the table that is current when it is called
QuerySendPayloads ==
    /\ query.pc = "payloads"
    /\ LET r == send_payload_pdus(store, QueryCommon)
       IN  query' = [query EXCEPT
                       !.out = @ \o r.out,
                       !.ret = r.error,
                       !.payload_serial = store.serial,
                       !.pc = IF r.error # 0 THEN "done" ELSE "end_of_data"]
    /\ QueryFrame

\* send_end_of_data_pdu carries the serial read at the start
QuerySendEndOfData ==
    /\ query.pc = "end_of_data"
    /\ LET r == send_end_of_data_pdu(QueryCommon)
       IN  query' = [query EXCEPT !.out = @ \o r.out, !.ret = r.error,
                                  !.pc = "done"]
    /\ QueryFrame

\* the handler has returned; the next PDU can be handled
QueryReturn ==
    /\ query.pc = "done"
    /\ query' = NoQuery
    /\ handled' = handled + 1
    /\ UNCHANGED << session_ids, store, fd_closed, sent, last, exited >>
    /\ UNCHANGED << talVars, walk, talfile >>

NextRace ==
    \/ ResetQueryBegin
    \/ SerialQueryBegin
    \/ QueryReadSerial
    \/ ResetQueryStatus
    \/ SerialQueryStatus
    \/ QuerySendCacheResponse
    \/ QuerySendPayloads
    \/ QuerySendEndOfData
    \/ QueryReturn
    \/ Publish

SpecRace == Init /\ [][NextRace]_vars

(* --------------------------- TAL dispatcher ---------------------------- *)
\* outcomes of tal_init and of cache_download_alt in one worker
WorkerErrors == {0, -EINVAL}

\* db_table_join(dst, src): dst absorbs the entries of src, src is drained
db_table_join(dst, src) ==
    [db |-> Table(dst.vrps \cup src.vrps), error |-> 0]

\* a validation_thread record as spawn_tal_thread sets it up;
\* worker: "none" (no thread), "running", "finished"; frees counts free(thread);
\* joined and produced record what happened to the thread and its table
NewThread ==
    [db |-> NullDb, error |-> -EINTR, worker |-> "running", frees |-> 0,
     joined |-> FALSE, produced |-> NullDb]

\* the worker: thread->error and thread->db after do_file_validation, given
\* the result of tal_init, the result of cache_download_alt and the table
\* the traversal filled
do_file_validation(tal_error, download_error, table) ==
    IF tal_error # 0
    THEN [error |-> tal_error, db |-> NullDb]
    ELSE IF download_error # 0
         THEN [error |-> download_error, db |-> NullDb]
         ELSE [error |-> 0, db |-> Table(table)]

\* thread_destroy: the record is freed, its table destroyed
thread_destroy(thread) ==
    [thread EXCEPT !.db = NullDb, !.frees = @ + 1]

\* mutant: the error of the thread joined last replaces the error so far
join_thread_last_error(thread, d, e) ==
    LET e1 == thread.error
    IN  IF e1 = 0
        THEN IF d.isNull
             THEN [db |-> thread.db, error |-> e1, thread_db |-> NullDb]
             ELSE LET j == db_table_join(d, thread.db)
                  IN  [db |-> j.db, error |-> j.error, thread_db |-> NullDb]
        ELSE [db |-> d, error |-> e1, thread_db |-> thread.db]

\* mutant: the table of the thread joined last replaces the tables so far
join_thread_keep_last(thread, d, e) ==
    LET e1 == IF thread.error # 0 THEN thread.error ELSE e
    IN  IF e1 = 0
        THEN [db |-> thread.db, error |-> e1, thread_db |-> NullDb]
        ELSE [db |-> d, error |-> e1, thread_db |-> thread.db]

\* the body of the "wait for all" loop after pthread_join: the function's db
\* and error, and thread->db, before thread_destroy
join_thread(thread, d, e) ==
    LET e1 == IF thread.error # 0 THEN thread.error ELSE e
    IN  IF e1 = 0
        THEN IF d.isNull
             THEN [db |-> thread.db, error |-> e1, thread_db |-> NullDb]
             ELSE LET j == db_table_join(d, thread.db)
                  IN  [db |-> j.db, error |-> j.error, thread_db |-> NullDb]
        ELSE [db |-> d, error |-> e1, thread_db |-> thread.db]

\* perform_standalone_validation is entered: foreach_file finds the TAL files
StartValidation ==
    /\ pc = "idle"
    /\ ~exited
    /\ store.serial < MaxSerial
    /\ \E n \in 0 .. MaxTals : ntals' = n
    /\ pc' = "spawning"
    /\ spawned' = 0
    /\ threads' = << >>
    /\ recs' = << >>
    /\ db' = NullDb
    /\ error' = 0
    /\ result' = NullDb
    /\ published' = FALSE
    /\ UNCHANGED nonTalVars

\* spawn_tal_thread for the next file; a failed pthread_create frees the
\* record, which stays in the list, and ends foreach_file with the error
SpawnTalThread ==
    /\ pc = "spawning"
    /\ spawned < ntals
    /\ spawned' = spawned + 1
    /\ threads' = << spawned + 1 >> \o threads
    /\ \E create_error \in {0, EAGAIN} :
         IF create_error = 0
         THEN /\ recs' = Append(recs, NewThread)
              /\ pc' = "spawning"
         ELSE /\ recs' = Append(recs, [NewThread EXCEPT !.worker = "none",
                                                         !.frees = 1])
              /\ pc' = "cleanup"
    /\ UNCHANGED << ntals, db, error, result, published >>
    /\ UNCHANGED nonTalVars

\* foreach_file returns: an error when the directory holds no .tal file
ForeachFileDone ==
    /\ pc = "spawning"
    /\ spawned = ntals
    /\ pc' = IF ntals = 0 THEN "cleanup" ELSE "joining"
    /\ UNCHANGED << ntals, spawned, threads, recs, db, error, result, published >>
    /\ UNCHANGED nonTalVars

\* a worker thread runs do_file_validation to its end
WorkerRun ==
    /\ \E i \in 1 .. Len(recs) :
         /\ recs[i].worker = "running"
         /\ \E te \in WorkerErrors, de \in WorkerErrors, t \in Tables :
              LET r == do_file_validation(te, de, t)
              IN  recs' = [recs EXCEPT ![i].error = r.error,
                                       ![i].db = r.db,
                                       ![i].produced = r.db,
                                       ![i].worker = "finished"]
    /\ UNCHANGED << pc, ntals, spawned, threads, db, error, result, published >>
    /\ UNCHANGED nonTalVars

\* foreach_file failed: every record of the list is destroyed, NULL returned
DestroyAfterSpawnError ==
    /\ pc = "cleanup"
    /\ IF threads # << >>
       THEN /\ recs' = [recs EXCEPT ![Head(threads)] = thread_destroy(@)]
            /\ threads' = Tail(threads)
            /\ UNCHANGED << pc, result >>
       ELSE /\ pc' = "returned"
            /\ result' = NullDb
            /\ UNCHANGED << recs, threads >>
    /\ UNCHANGED << ntals, spawned, db, error, published >>
    /\ UNCHANGED nonTalVars

\* one round of the "wait for all" loop: pthread_join returns once the
\* thread has finished
JoinThread ==
    /\ pc = "joining"
    /\ threads # << >>
    /\ LET i == Head(threads)
           r == join_thread(recs[i], db, error)
       IN  /\ recs[i].worker = "finished"
           /\ db' = r.db
           /\ error' = r.error
           /\ recs' = [recs EXCEPT
                         ![i] = thread_destroy([@ EXCEPT !.db = r.thread_db,
                                                         !.joined = TRUE])]
           /\ threads' = Tail(threads)
    /\ UNCHANGED << pc, ntals, spawned, result, published >>
    /\ UNCHANGED nonTalVars

\* the list is empty: a table is returned only without error
ReturnTable ==
    /\ pc = "joining"
    /\ threads = << >>
    /\ pc' = "returned"
    /\ IF error # 0
       THEN db' = NullDb /\ result' = NullDb
       ELSE db' = db /\ result' = db
    /\ UNCHANGED << ntals, spawned, threads, recs, error, published >>
    /\ UNCHANGED nonTalVars

\* the validation cycle hands a returned table to the delta store
EndValidation ==
    /\ pc = "returned"
    /\ pc' = "idle"
    /\ IF result.isNull
       THEN UNCHANGED << store, published >>
       ELSE /\ store' = publish(store, result.vrps)
            /\ published' = TRUE
    /\ UNCHANGED << ntals, spawned, threads, recs, db, error, result >>
    /\ UNCHANGED << session_ids, fd_closed, handled, sent, last, exited >>
    /\ UNCHANGED << query, walk, talfile >>

NextTal ==
    \/ StartValidation
    \/ SpawnTalThread
    \/ ForeachFileDone
    \/ WorkerRun
    \/ DestroyAfterSpawnError
    \/ JoinThread
    \/ ReturnTable
    \/ EndValidation

SpecTal == Init /\ [][NextTal]_vars

(* ------------------------------ TAL worker ----------------------------- *)
\* One worker: tal_init, then cache_download_alt tries the TAL's URIs in list
\* order and calls handle_tal_uri on each one it could download.
ENSURE_NEGATIVE(e) == IF e < 0 THEN e ELSE -e

PKS_VALID == "PKS_VALID"
PKS_INVALID == "PKS_INVALID"
PKS_UNTESTED == "PKS_UNTESTED"
PubkeyStates == { PKS_VALID, PKS_INVALID, PKS_UNTESTED }

Bump(n) == IF n < CountCap THEN n + 1 ELSE n

RECURSIVE CertSeq(_)
CertSeq(S) ==
    IF S = {} THEN << >>
    ELSE LET c == CHOOSE x \in S : \A y \in S : x <= y
         IN  << c >> \o CertSeq(S \ {c})

\* certificate_traverse defers the CA children it has not seen before
defer_children_unchecked(stack, visited, kids) ==
    [stack |-> stack \o CertSeq(kids), visited |-> visited \cup kids,
     skipped |-> {}]
defer_children(stack, visited, kids) ==
    [stack |-> stack \o CertSeq(kids \ visited), visited |-> visited \cup kids,
     skipped |-> kids \cap visited]

\* validation_prepare: a fresh validation state for this URI
validation_prepare(w) ==
    [w EXCEPT !.stack = << >>, !.visited = {}, !.root_ok = FALSE,
              !.failed = {}, !.emitted = {}, !.exit = "none", !.skipped = {},
              !.popped = [c \in Certs |-> 0],
              !.traversed = [c \in Certs |-> 0],
              !.uri_put = [c \in Certs |-> 0],
              !.rpp_put = [c \in Certs |-> 0]]

\* handle_tal_uri up to the walk: validation_prepare, the .cer check and
\* the traversal of the root certificate
handle_tal_uri_root(w, prepare_error, is_certificate, root_error, pks, vrps, kids) ==
    LET s == validation_prepare(w)
        deferred == defer_children(s.stack, s.visited, kids)
    IN  IF prepare_error # 0
        THEN [s EXCEPT !.pc = "returned", !.exit = "prepare",
                       !.error = ENSURE_NEGATIVE(prepare_error)]
        ELSE IF ~ is_certificate
        THEN [s EXCEPT !.pc = "returned", !.exit = "not_cer", !.error = EINVAL]
        ELSE IF root_error # 0
        THEN [s EXCEPT !.pc = "returned", !.exit = "root",
                       !.error = IF pks = PKS_INVALID THEN EINVAL
                                 ELSE ENSURE_NEGATIVE(root_error)]
        ELSE [s EXCEPT !.pc = "walk", !.root_ok = TRUE, !.error = 0,
                       !.table = @ \cup vrps, !.emitted = vrps,
                       !.stack = deferred.stack, !.visited = deferred.visited,
                       !.skipped = deferred.skipped]

\* one round of the walk with its references kept when the traversal fails
handle_tal_uri_pop_leaky(w, traverse_error, vrps, kids) ==
    LET n == Len(w.stack)
        c == w.stack[n]
        rest == SubSeq(w.stack, 1, n - 1)
        deferred == defer_children(rest, w.visited, kids)
    IN  IF n = 0
        THEN [w EXCEPT !.pc = "returned", !.exit = "enoent", !.error = 0]
        ELSE IF traverse_error # 0
        THEN [w EXCEPT !.stack = rest, !.failed = @ \cup {c},
                       !.popped[c] = Bump(@), !.traversed[c] = Bump(@)]
        ELSE [w EXCEPT !.stack = deferred.stack, !.visited = deferred.visited,
                       !.skipped = @ \cup deferred.skipped,
                       !.table = @ \cup vrps, !.emitted = @ \cup vrps,
                       !.popped[c] = Bump(@), !.traversed[c] = Bump(@),
                       !.uri_put[c] = Bump(@), !.rpp_put[c] = Bump(@)]

\* one round of the walk that stops at a failed traversal
handle_tal_uri_pop_checked(w, traverse_error, vrps, kids) ==
    LET n == Len(w.stack)
        c == w.stack[n]
        rest == SubSeq(w.stack, 1, n - 1)
        deferred == defer_children(rest, w.visited, kids)
    IN  IF n = 0
        THEN [w EXCEPT !.pc = "returned", !.exit = "enoent", !.error = 0]
        ELSE IF traverse_error # 0
        THEN [w EXCEPT !.pc = "returned", !.exit = "traverse",
                       !.error = traverse_error,
                       !.stack = rest, !.failed = @ \cup {c},
                       !.popped[c] = Bump(@), !.traversed[c] = Bump(@),
                       !.uri_put[c] = Bump(@), !.rpp_put[c] = Bump(@)]
        ELSE [w EXCEPT !.stack = deferred.stack, !.visited = deferred.visited,
                       !.skipped = @ \cup deferred.skipped,
                       !.table = @ \cup vrps, !.emitted = @ \cup vrps,
                       !.popped[c] = Bump(@), !.traversed[c] = Bump(@),
                       !.uri_put[c] = Bump(@), !.rpp_put[c] = Bump(@)]

\* one round of the walk whose result is the last traversal's
handle_tal_uri_pop_keeps_error(w, traverse_error, vrps, kids) ==
    LET n == Len(w.stack)
        c == w.stack[n]
        rest == SubSeq(w.stack, 1, n - 1)
        deferred == defer_children(rest, w.visited, kids)
    IN  IF n = 0
        THEN [w EXCEPT !.pc = "returned", !.exit = "enoent"]
        ELSE IF traverse_error # 0
        THEN [w EXCEPT !.stack = rest, !.failed = @ \cup {c},
                       !.error = traverse_error,
                       !.popped[c] = Bump(@), !.traversed[c] = Bump(@),
                       !.uri_put[c] = Bump(@), !.rpp_put[c] = Bump(@)]
        ELSE [w EXCEPT !.stack = deferred.stack, !.visited = deferred.visited,
                       !.skipped = @ \cup deferred.skipped,
                       !.table = @ \cup vrps, !.emitted = @ \cup vrps,
                       !.popped[c] = Bump(@), !.traversed[c] = Bump(@),
                       !.uri_put[c] = Bump(@), !.rpp_put[c] = Bump(@)]

\* one round of the walk of handle_tal_uri: deferstack_pop, then
\* certificate_traverse with its result ignored, uri_refput and rpp_refput
handle_tal_uri_pop(w, traverse_error, vrps, kids) ==
    LET n == Len(w.stack)
        c == w.stack[n]
        rest == SubSeq(w.stack, 1, n - 1)
        deferred == defer_children(rest, w.visited, kids)
    IN  IF n = 0
        THEN [w EXCEPT !.pc = "returned", !.exit = "enoent", !.error = 0]
        ELSE IF traverse_error # 0
        THEN [w EXCEPT !.stack = rest, !.failed = @ \cup {c},
                       !.popped[c] = Bump(@), !.traversed[c] = Bump(@),
                       !.uri_put[c] = Bump(@), !.rpp_put[c] = Bump(@)]
        ELSE [w EXCEPT !.stack = deferred.stack, !.visited = deferred.visited,
                       !.skipped = @ \cup deferred.skipped,
                       !.table = @ \cup vrps, !.emitted = @ \cup vrps,
                       !.popped[c] = Bump(@), !.traversed[c] = Bump(@),
                       !.uri_put[c] = Bump(@), !.rpp_put[c] = Bump(@)]

\* cache_download_alt after one URI: stop at the first URI whose download
\* and visit succeeded, fail when the list is used up
cache_download_alt_all(w, outcome) ==
    LET log == Append(w.attempts, outcome)
    IN  IF w.i < w.nuris
        THEN [w EXCEPT !.pc = "download", !.i = @ + 1, !.attempts = log]
        ELSE [w EXCEPT !.pc = "finish", !.attempts = log,
                       !.download_error = IF outcome = "ok" THEN 0 ELSE -EINVAL]
cache_download_alt(w, outcome) ==
    LET log == Append(w.attempts, outcome)
    IN  IF outcome = "ok"
        THEN [w EXCEPT !.pc = "finish", !.attempts = log, !.download_error = 0]
        ELSE IF w.i < w.nuris
        THEN [w EXCEPT !.pc = "download", !.i = @ + 1, !.attempts = log]
        ELSE [w EXCEPT !.pc = "finish", !.attempts = log,
                       !.download_error = -EINVAL]

WalkFrame == UNCHANGED << rtrVars, talVars, query, talfile >>

\* do_file_validation starts: tal_init, db_table_create
WorkerStart ==
    /\ walk.pc = "idle"
    /\ \E tal_error \in WorkerErrors, n \in 1 .. MaxUris :
         walk' = IF tal_error # 0
                 THEN [NoWalk EXCEPT !.pc = "finish", !.tal_error = tal_error]
                 ELSE [NoWalk EXCEPT !.pc = "download", !.nuris = n, !.i = 1]
    /\ WalkFrame

\* cache_download_alt fetches URI i
DownloadUri ==
    /\ walk.pc = "download"
    /\ \E fetched \in BOOLEAN :
         walk' = IF fetched THEN [walk EXCEPT !.pc = "visit"]
                 ELSE cache_download_alt(walk, "no_fetch")
    /\ WalkFrame

HandleTalUriRoot ==
    /\ walk.pc = "visit"
    /\ \E prepare_error \in { 0, EINVAL, -EINVAL }, is_certificate \in BOOLEAN,
          root_error \in { 0, EINVAL, -EINVAL } :
         LET traversed == prepare_error = 0 /\ is_certificate /\ root_error = 0
         IN  \E pks \in IF root_error # 0 THEN PubkeyStates ELSE { PKS_VALID },
                vrps \in IF traversed THEN SUBSET Vrps ELSE { {} },
                kids \in IF traversed THEN SUBSET Certs ELSE { {} } :
               walk' = handle_tal_uri_root(walk, prepare_error, is_certificate,
                                           root_error, pks, vrps, kids)
    /\ WalkFrame

HandleTalUriPop ==
    /\ walk.pc = "walk"
    /\ \E traverse_error \in IF walk.stack = << >> THEN { 0 } ELSE { 0, -EINVAL } :
         LET traversed == walk.stack # << >> /\ traverse_error = 0
         IN  \E vrps \in IF traversed THEN SUBSET Vrps ELSE { {} },
                kids \in IF traversed THEN SUBSET Certs ELSE { {} } :
               /\ walk' = handle_tal_uri_pop(walk, traverse_error, vrps, kids)
               /\ Len(walk'.stack) <= MaxCerts
    /\ WalkFrame

\* handle_tal_uri has returned to cache_download_alt
VisitReturned ==
    /\ walk.pc = "returned"
    /\ walk' = cache_download_alt(walk, IF walk.error = 0 THEN "ok"
                                        ELSE "visit_failed")
    /\ WalkFrame

\* the rest of do_file_validation: thread->error and thread->db
WorkerFinish ==
    /\ walk.pc = "finish"
    /\ LET r == do_file_validation(walk.tal_error, walk.download_error,
                                   walk.table)
       IN  walk' = [walk EXCEPT !.pc = "done", !.thread_error = r.error,
                                !.thread_db = r.db]
    /\ WalkFrame

NextWorker ==
    \/ WorkerStart
    \/ DownloadUri
    \/ HandleTalUriRoot
    \/ HandleTalUriPop
    \/ VisitReturned
    \/ WorkerFinish

SpecWorker == Init /\ [][NextWorker]_vars

\* the worker thread keeps running until do_file_validation returns
SpecWorkerFair == SpecWorker /\ WF_vars(NextWorker)

(* ------------------------------ TAL parser ----------------------------- *)
\* The file content is a string of symbols: the characters the parser tells
\* apart, the two URI prefixes taken as one symbol each, and TEXT for any
\* other printable character.
HASH == "#"
LF == "LF"
CR == "CR"
RSYNC == "rsync://"
HTTPS == "https://"
TEXT == "x"
Symbols == { HASH, LF, CR, RSYNC, HTTPS, TEXT }

RECURSIVE Strings(_)
Strings(n) ==
    IF n = 0 THEN { << >> }
    ELSE LET shorter == Strings(n - 1)
         IN  shorter \cup { Append(s, c) : s \in { t \in shorter : Len(t) = n - 1 },
                                          c \in Symbols }
FileContents == Strings(MaxLen)

isspace(c) == c \in { CR, LF }

\* position of the first '\n' at or after i, 0 for NULL
strchr_newline(fc, i) ==
    LET at == { j \in i .. Len(fc) : fc[j] = LF }
    IN  IF at = {} THEN 0 ELSE CHOOSE j \in at : \A k \in at : j <= k

find_newline(fc, i) ==
    LET at == { j \in i .. Len(fc) :
                  \/ fc[j] = LF
                  \/ fc[j] = CR /\ j + 1 <= Len(fc) /\ fc[j + 1] = LF }
    IN  IF at = {} THEN 0 ELSE CHOOSE j \in at : \A k \in at : j <= k

is_blank(str) == \A k \in 1 .. Len(str) : isspace(str[k])

add_uri_any_scheme(uris, uri) == [error |-> 0, uris |-> Append(uris, uri)]
add_uri(uris, uri) ==
    IF Len(uri) > 0 /\ uri[1] \in { RSYNC, HTTPS }
    THEN [error |-> 0, uris |-> Append(uris, uri)]
    ELSE [error |-> -EINVAL, uris |-> uris]

\* base64_decode: whitespace is skipped, a character outside the base64
\* alphabet fails, and what an empty payload gives is left open
Base64Payload(str) == SelectSeq(str, LAMBDA c : ~ isspace(c))
base64_decode(str, empty_decodes) ==
    LET payload == Base64Payload(str)
    IN  /\ \A k \in 1 .. Len(payload) : payload[k] = TEXT
        /\ (payload = << >>) => empty_decodes

ParseResult(err, msg, uris) == [error |-> err, msg |-> msg, uris |-> uris]

RECURSIVE comment_section(_, _)
comment_section(fc, i) ==
    IF i <= Len(fc) /\ fc[i] = HASH
    THEN LET nl == strchr_newline(fc, i)
         IN  IF nl = 0 THEN 0 ELSE comment_section(fc, nl + 1)
    ELSE i

RECURSIVE uri_section(_, _, _, _)
uri_section(fc, i, uris, empty_decodes) ==
    LET nl == find_newline(fc, i)
        cr == IF fc[nl] = CR THEN 1 ELSE 0
        line == SubSeq(fc, i, nl - 1)
        added == add_uri(uris, line)
        next == nl + cr + 1
    IN  IF nl = 0
        THEN ParseResult(-EINVAL, "premature", uris)
        ELSE IF is_blank(line)
        THEN IF Len(uris) = 0
             THEN ParseResult(-EINVAL, "empty_uris", uris)
             ELSE IF ~ base64_decode(SubSeq(fc, next, Len(fc)), empty_decodes)
             THEN ParseResult(-EINVAL, "cannot_decode", uris)
             ELSE ParseResult(0, "none", uris)
        ELSE IF added.error # 0
        THEN ParseResult(added.error, "non_rsync_https", added.uris)
        ELSE IF next > Len(fc)
        THEN ParseResult(-EINVAL, "missing_key", added.uris)
        ELSE uri_section(fc, next, added.uris, empty_decodes)

read_content(fc, empty_decodes) ==
    LET start == comment_section(fc, 1)
    IN  IF start = 0
        THEN ParseResult(-EINVAL, "premature", << >>)
        ELSE uri_section(fc, start, << >>, empty_decodes)

\* the file has been loaded; a failed parse leaves no URI behind
tal_init(fc, empty_decodes) ==
    LET r == read_content(fc, empty_decodes)
    IN  IF r.error # 0
        THEN ParseResult(r.error, r.msg, << >>)
        ELSE r

\* a .tal file is found on disk
LoadTalFile ==
    /\ talfile.pc = "idle"
    /\ \E fc \in FileContents :
         talfile' = [NoTalFile EXCEPT !.pc = "loaded", !.fc = fc]
    /\ UNCHANGED << rtrVars, talVars, query, walk >>

TalInit ==
    /\ talfile.pc = "loaded"
    /\ \E empty_decodes \in BOOLEAN :
         talfile' = [talfile EXCEPT
                       !.pc = "parsed",
                       !.empty_decodes = empty_decodes,
                       !.tal = tal_init(talfile.fc, empty_decodes)]
    /\ UNCHANGED << rtrVars, talVars, query, walk >>

NextParse ==
    \/ LoadTalFile
    \/ TalInit

SpecParse == Init /\ [][NextParse]_vars

(* ======================= properties: RTR handlers ====================== *)
LastIs(type) == last.pdu.type = type
LastSessionMatches == last.pdu.session_id = session_ids[last.pdu.version]
LastMatchingSerialQuery == LastIs(PDU_TYPE_SERIAL_QUERY) /\ LastSessionMatches
IsErrorReport(p, code) == p.type = PDU_TYPE_ERROR_REPORT /\ p.code = code
IsPayload(p) == p.type \in {PDU_TYPE_IPV4_PREFIX, PDU_TYPE_IPV6_PREFIX}
OutTypes == { last.out[i].type : i \in 1 .. Len(last.out) }
ServerToRouterTypes ==
    {PDU_TYPE_SERIAL_NOTIFY, PDU_TYPE_CACHE_RESPONSE, PDU_TYPE_IPV4_PREFIX,
     PDU_TYPE_IPV6_PREFIX, PDU_TYPE_END_OF_DATA, PDU_TYPE_CACHE_RESET}

\* C1: a Serial Query whose session id is not the server's for its protocol
\* version gets exactly one PDU, an Error Report with code Corrupt Data (0),
\* whatever the delta store holds, and the connection is closed.
C1_SessionMismatchCorruptData ==
    (LastIs(PDU_TYPE_SERIAL_QUERY) /\ ~LastSessionMatches) =>
        /\ Len(last.out) = 1
        /\ IsErrorReport(last.out[1], ERR_PDU_CORRUPT_DATA)
        /\ fd_closed
        /\ SessionVerdict = "close"

C1_Witness ==
    /\ LastIs(PDU_TYPE_SERIAL_QUERY) /\ ~LastSessionMatches
    /\ ~last.db.has_data
    /\ Len(last.out) = 1

\* C2: a PDU of a server-to-router type is answered with exactly one Error
\* Report, code 5 (Unsupported PDU Type), echoing the offending header; no
\* other PDU is sent, the delta store is not consulted and the handler
\* returns failure.
C2_UnexpectedPduRejected ==
    (last.pdu.type \in ServerToRouterTypes) =>
        /\ Len(last.out) = 1
        /\ IsErrorReport(last.out[1], ERR_PDU_UNSUP_PDU_TYPE)
        /\ last.out[1].hdr = Header(last.pdu.version, last.pdu.type,
                                     last.pdu.session_id)
        /\ last.status = NOT_CONSULTED
        /\ last.ret # 0

C2_Witness ==
    /\ LastIs(PDU_TYPE_END_OF_DATA)
    /\ Len(sent) = 1
    /\ last.ret = -EINVAL

\* C3: a Reset Query handled after at least one publication is answered
\* with Cache Response, one Payload PDU per VRP of the current table, End of
\* Data, in this order; the session stays open, no Error Report is sent and
\* the process is not terminated.
C3_ResetQuerySnapshot ==
    (LastIs(PDU_TYPE_RESET_QUERY) /\ last.db.has_data) =>
        LET n == Len(last.out)
        IN  /\ n = Cardinality(last.db.table) + 2
            /\ last.out[1].type = PDU_TYPE_CACHE_RESPONSE
            /\ last.out[n].type = PDU_TYPE_END_OF_DATA
            /\ \A i \in 2 .. (n - 1) : IsPayload(last.out[i])
            /\ { last.out[i].vrp : i \in 2 .. (n - 1) } = last.db.table
            /\ SessionVerdict = "keep_open"
            /\ ~exited

C3_Witness ==
    /\ LastIs(PDU_TYPE_RESET_QUERY)
    /\ last.db.has_data
    /\ Cardinality(last.db.table) = 2
    /\ Len(last.out) = 4

\* C4: a Serial Query with matching session id asking for the current serial
\* of a store that has data (NO_DIFF) is answered with exactly Cache Response
\* then End of Data, no payload between them, and the session stays open.
C4_NoDiffExchange ==
    (LastMatchingSerialQuery /\ last.db.has_data
        /\ last.pdu.serial = last.db.serial) =>
        /\ last.status = NO_DIFF
        /\ Len(last.out) = 2
        /\ last.out[1].type = PDU_TYPE_CACHE_RESPONSE
        /\ last.out[2].type = PDU_TYPE_END_OF_DATA
        /\ last.out[2].serial = last.db.serial
        /\ SessionVerdict = "keep_open"

C4_Witness ==
    /\ LastMatchingSerialQuery
    /\ last.status = NO_DIFF
    /\ last.db.table # {}
    /\ Len(last.out) = 2

\* C5: a Serial Query with matching session id whose serial the history
\* does not hold (DIFF_UNDETERMINED) is answered with exactly one PDU, a
\* Cache Reset, and the session stays open.
C5_UnknownSerialCacheReset ==
    (LastMatchingSerialQuery /\ last.status = DIFF_UNDETERMINED) =>
        /\ Len(last.out) = 1
        /\ last.out[1].type = PDU_TYPE_CACHE_RESET
        /\ SessionVerdict = "keep_open"

C5_Witness ==
    /\ LastMatchingSerialQuery
    /\ last.status = DIFF_UNDETERMINED
    /\ last.pdu.serial > last.db.serial
    /\ Len(last.out) = 1

\* C6: before the first publication every Reset Query and every Serial
\* Query with matching session id is answered with exactly one Error Report
\* with code No Data Available (2), and the session stays open.
C6_NoDataAvailable ==
    ((LastIs(PDU_TYPE_RESET_QUERY) \/ LastMatchingSerialQuery)
        /\ ~last.db.has_data) =>
        /\ last.status = NO_DATA_AVAILABLE
        /\ Len(last.out) = 1
        /\ IsErrorReport(last.out[1], ERR_PDU_NO_DATA_AVAILABLE)
        /\ SessionVerdict = "keep_open"

C6_Witness ==
    /\ LastIs(PDU_TYPE_RESET_QUERY)
    /\ ~last.db.has_data
    /\ handled = 2
    /\ Len(sent) = 2

\* C7 as stated: a Serial Query with matching session id and a serial that
\* is in the history and is not the current one (DIFF_AVAILABLE) is answered
\* with Cache Response, a Payload PDU for each VRP added or removed since
\* that serial, End of Data.
C7_Original_DiffExchange ==
    (LastMatchingSerialQuery /\ last.status = DIFF_AVAILABLE) =>
        LET n == Len(last.out)
        IN  /\ n >= 2
            /\ last.out[1].type = PDU_TYPE_CACHE_RESPONSE
            /\ last.out[n].type = PDU_TYPE_END_OF_DATA
            /\ \A i \in 2 .. (n - 1) : IsPayload(last.out[i])
            /\ { << last.out[i].vrp, last.out[i].flags >> : i \in 2 .. (n - 1) }
                 = { << v, FLAG_ANNOUNCEMENT >> : v \in last.delta.added }
                   \cup { << v, FLAG_WITHDRAWAL >> : v \in last.delta.removed }

\* C7 amended: a Serial Query with matching session id and status
\* DIFF_AVAILABLE is answered with exactly one PDU, a Cache Reset, and the
\* session stays open.
C7_DiffAvailableCacheReset ==
    (LastMatchingSerialQuery /\ last.status = DIFF_AVAILABLE) =>
        /\ Len(last.out) = 1
        /\ last.out[1].type = PDU_TYPE_CACHE_RESET
        /\ SessionVerdict = "keep_open"

C7_Witness ==
    /\ LastMatchingSerialQuery
    /\ last.status = DIFF_AVAILABLE
    /\ last.pdu.serial < last.db.serial
    /\ last.delta.added # {}
    /\ Len(last.out) = 1

\* C8: an inbound Error Report is answered with no PDU; the socket is closed
\* and the session ends exactly when the error code is fatal, that is any
\* code but No Data Available (2).
C8_ErrorReportClosesIffFatal ==
    LastIs(PDU_TYPE_ERROR_REPORT) =>
        /\ last.out = << >>
        /\ fd_closed <=> (last.pdu.error_code # ERR_PDU_NO_DATA_AVAILABLE)
        /\ (SessionVerdict = "close")
             <=> (last.pdu.error_code # ERR_PDU_NO_DATA_AVAILABLE)

C8_Witness ==
    /\ LastIs(PDU_TYPE_ERROR_REPORT)
    /\ last.pdu.error_code = ERR_PDU_NO_DATA_AVAILABLE
    /\ handled = 1
    /\ SessionVerdict = "keep_open"

\* s[i..] is a run of whole exchanges: Cache Response, payloads, End of Data,
\* with Cache Reset and Error Report only outside of an exchange
RECURSIVE Exchanges(_, _, _)
Exchanges(s, i, inside) ==
    IF i > Len(s) THEN ~inside
    ELSE CASE s[i].type = PDU_TYPE_CACHE_RESPONSE ->
                ~inside /\ Exchanges(s, i + 1, TRUE)
           [] s[i].type = PDU_TYPE_END_OF_DATA ->
                inside /\ Exchanges(s, i + 1, FALSE)
           [] IsPayload(s[i]) ->
                inside /\ Exchanges(s, i + 1, TRUE)
           [] OTHER ->
                ~inside /\ Exchanges(s, i + 1, FALSE)

\* C13: on one connection every Cache Response is followed by its End of
\* Data with only payload PDUs between them, before any other Cache
\* Response, Cache Reset or Error Report; and a handler sends End of Data
\* only after its own Cache Response.
C13_ExchangesNotInterleaved ==
    /\ Exchanges(sent, 1, FALSE)
    /\ Exchanges(last.out, 1, FALSE)

C13_Witness ==
    /\ handled = 2
    /\ Len(sent) = 6
    /\ sent[1].type = PDU_TYPE_CACHE_RESPONSE
    /\ sent[2].type = PDU_TYPE_END_OF_DATA
    /\ sent[3].type = PDU_TYPE_CACHE_RESPONSE
    /\ IsPayload(sent[4]) /\ IsPayload(sent[5])
    /\ sent[6].type = PDU_TYPE_END_OF_DATA

(* ================ properties: handlers next to the publisher =========== *)
QueryEndOfData ==
    { query.out[i] : i \in { j \in 1 .. Len(query.out) :
                               query.out[j].type = PDU_TYPE_END_OF_DATA } }
QuerySentPayloads ==
    query.pdu.type = PDU_TYPE_RESET_QUERY /\ query.updates = DIFF_AVAILABLE

\* C12: the values a query handler uses in one response belong to one
\* published state: the serial End of Data carries is the serial the store
\* had when the status was read, and the serial of the table whose payloads
\* were sent; it is never a serial that was not yet installed.
C12_ResponseFromOnePublishedState ==
    (query.pc = "done") =>
        \A e \in QueryEndOfData :
            /\ e.serial = query.status_serial
            /\ QuerySentPayloads => e.serial = query.payload_serial
            /\ e.serial <= store.serial

(* ========================= properties: TAL parser ====================== *)
\* The lines of a file as a reader sees them: every LF ends a line, and a CR
\* right before it belongs to the line ending.
RECURSIVE TalLines(_, _)
TalLines(fc, i) ==
    LET ends == { j \in i .. Len(fc) : fc[j] = LF }
        j == CHOOSE e \in ends : \A k \in ends : e <= k
        raw == SubSeq(fc, i, j - 1)
        text == IF raw # << >> /\ raw[Len(raw)] = CR
                THEN SubSeq(raw, 1, Len(raw) - 1) ELSE raw
    IN  IF ends = {} THEN << >>
        ELSE << [text |-> text, end |-> j] >> \o TalLines(fc, j + 1)

StartsWith(line, symbols) == line # << >> /\ line[1] \in symbols
BlankLine(line) == \A k \in 1 .. Len(line) : line[k] = CR
FileLines == TalLines(talfile.fc, 1)
Parsed == talfile.pc = "parsed"

\* comments, one or more valid URIs, a blank line, and nothing after it
EndsAtBlankLine ==
    LET n == Len(FileLines)
    IN  /\ n >= 2
        /\ FileLines[n].end = Len(talfile.fc)
        /\ BlankLine(FileLines[n].text)
        /\ \E c \in 0 .. n - 2 :
             /\ \A k \in 1 .. c : StartsWith(FileLines[k].text, { HASH })
             /\ \A k \in c + 1 .. n - 1 :
                  StartsWith(FileLines[k].text, { RSYNC, HTTPS })

\* C14: parsing a TAL whose content ends at the blank separator line
\* (comments, one or more valid URIs, a blank line, nothing after it) fails
\* with the "TAL seems to end prematurely" error.
C14_EndAtBlankLineIsPremature ==
    (Parsed /\ EndsAtBlankLine) =>
        (talfile.tal.error # 0 /\ talfile.tal.msg = "premature")

\* the lines after the leading comment lines
FirstBody(ls) ==
    LET comments == { c \in 0 .. Len(ls) :
                        \A k \in 1 .. c : StartsWith(ls[k].text, { HASH }) }
    IN  1 + CHOOSE c \in comments : \A d \in comments : d <= c
Blanks(ls, first) == { k \in first .. Len(ls) : BlankLine(ls[k].text) }
Separator(blanks) == CHOOSE k \in blanks : \A m \in blanks : k <= m
UriBlock(ls, first, blanks) ==
    [ k \in 1 .. (IF blanks # {} THEN Separator(blanks) ELSE Len(ls) + 1)
                 - first |-> ls[first + k - 1].text ]
OtherScheme(block) ==
    \E k \in 1 .. Len(block) : ~ StartsWith(block[k], { RSYNC, HTTPS })
SpkiDecodes(ls, blanks) ==
    /\ blanks # {}
    /\ base64_decode(SubSeq(talfile.fc, ls[Separator(blanks)].end + 1,
                            Len(talfile.fc)), talfile.empty_decodes)

\* C15: read_content succeeds only if the URI block between the leading
\* comments and the first blank line is non-empty and all of its lines begin
\* with rsync:// or https://; then the URI list is that block, in file
\* order; another scheme, an empty block, a missing blank separator and an
\* undecodable SPKI each make the parse fail.
C15_ParseAcceptsOnlyWellFormed ==
    Parsed =>
        LET ls == FileLines
            first == FirstBody(ls)
            blanks == Blanks(ls, first)
            block == UriBlock(ls, first, blanks)
            well_formed == /\ blanks # {}
                           /\ Len(block) > 0
                           /\ ~ OtherScheme(block)
                           /\ SpkiDecodes(ls, blanks)
        IN  /\ (talfile.tal.error = 0) =>
                   (well_formed /\ talfile.tal.uris = block)
            /\ (~ well_formed) => talfile.tal.error # 0

C15_Witness ==
    /\ Parsed
    /\ talfile.tal.error = 0
    /\ talfile.fc = << RSYNC, CR, LF, CR, LF, TEXT >>
    /\ talfile.tal.uris = << << RSYNC >> >>

(* ========================= properties: TAL worker ====================== *)
AttemptEnded == walk.pc = "returned"
WorkerDone == walk.pc = "done"
PoppedNone == \A c \in Certs : walk.popped[c] = 0
Successes == { k \in 1 .. Len(walk.attempts) : walk.attempts[k] = "ok" }

\* C11: once the root traversal has succeeded handle_tal_uri returns 0
\* whatever deferred traversals fail, and every deferred entry is still
\* popped and traversed; when validation setup, the .cer check or the root
\* traversal fails it returns non-zero and pops nothing.
C11_OnlyRootFailureAborts ==
    AttemptEnded =>
        IF walk.root_ok
        THEN /\ walk.error = 0
             /\ walk.stack = << >>
             /\ \A c \in walk.visited :
                  walk.popped[c] >= 1 /\ walk.traversed[c] >= 1
        ELSE walk.error # 0 /\ PoppedNone

C11_Witness ==
    /\ AttemptEnded
    /\ walk.root_ok
    /\ walk.failed = {2}
    /\ walk.traversed[1] = 1
    /\ walk.error = 0

\* C16: the worker reports success and hands over a table exactly when its
\* TAL parsed and some URI, tried in list order, was downloaded and visited
\* with success; the attempts stop at the first such URI; when every URI
\* fails the error is non-zero and no table is handed over.
C16_SuccessIffSomeUriVisited ==
    WorkerDone =>
        /\ (walk.thread_error = 0) <=> (walk.tal_error = 0 /\ Successes # {})
        /\ Successes \subseteq { Len(walk.attempts) }
        /\ (walk.tal_error = 0 /\ Successes = {})
               => Len(walk.attempts) = walk.nuris
        /\ Len(walk.attempts) <= walk.nuris
        /\ walk.thread_db.isNull <=> (walk.thread_error # 0)

C16_Witness ==
    /\ WorkerDone
    /\ walk.nuris = 2
    /\ walk.attempts = << "no_fetch", "ok" >>
    /\ walk.thread_error = 0
    /\ ~ walk.thread_db.isNull

\* C17: the walk ends only by popping the empty stack, with result 0; every
\* popped entry is traversed exactly once and its URI and its parent RPP
\* are released exactly once, whether the traversal succeeded or failed.
C17_PoppedEntriesReleasedOnce ==
    /\ \A c \in Certs :
         /\ walk.traversed[c] = walk.popped[c]
         /\ walk.uri_put[c] = walk.popped[c]
         /\ walk.rpp_put[c] = walk.popped[c]
    /\ (walk.exit = "enoent") => (walk.error = 0 /\ walk.stack = << >>)
    /\ (AttemptEnded /\ walk.root_ok) => walk.exit = "enoent"

C17_Witness ==
    /\ AttemptEnded
    /\ walk.exit = "enoent"
    /\ walk.failed = {1}
    /\ walk.popped[2] = 1
    /\ walk.uri_put[1] = 1
    /\ walk.rpp_put[1] = 1

\* C18: the walk that starts after a valid root ends, also when
\* certificates point at certificates already seen: a repeated pair is not
\* pushed again, the stack runs empty and handle_tal_uri returns.
C18_WalkTerminates == (walk.pc = "walk") ~> (walk.pc = "returned")

C18_Witness ==
    /\ AttemptEnded
    /\ walk.exit = "enoent"
    /\ walk.skipped = Certs
    /\ \A c \in Certs : walk.popped[c] = 1

Workers == 1 .. Len(recs)
Returned == pc \in {"returned", "idle"}
\* a worker reports its error to the dispatcher when it is joined
ReportedError == \E i \in Workers : recs[i].joined /\ recs[i].error # 0
AllJoinedOk ==
    /\ Len(recs) > 0
    /\ \A i \in Workers : recs[i].joined /\ recs[i].error = 0

\* the tables of the workers merged by repeated join in the order 'ord'
RECURSIVE JoinAll(_, _)
JoinAll(ord, n) ==
    IF n = 1 THEN recs[ord[1]].produced
    ELSE db_table_join(JoinAll(ord, n - 1), recs[ord[n]].produced).db

\* C9: once perform_standalone_validation has returned, if a joined worker
\* reported a non-zero error then the result is NULL, nothing was published
\* from it, and every worker was joined: whatever the number of workers, the
\* place of the failing one in the join order and the outcome of the others.
C9_AnyErrorDiscardsAll ==
    (Returned /\ ReportedError) =>
        /\ result.isNull
        /\ \A i \in Workers : recs[i].joined
        /\ ~published

C9_Witness ==
    /\ pc = "idle"
    /\ Len(recs) = 2
    /\ recs[2].joined /\ recs[2].error # 0
    /\ recs[1].joined /\ recs[1].error = 0 /\ recs[1].produced.vrps # {}
    /\ result.isNull

\* C10: when every worker was joined without error, the returned table holds
\* exactly the union of the workers' tables, which is also what repeated
\* join gives in every order of the workers.
C10_ResultIsUnion ==
    (Returned /\ AllJoinedOk) =>
        /\ ~result.isNull
        /\ result.vrps = UNION { recs[i].produced.vrps : i \in Workers }
        /\ \A ord \in Permutations(Workers) :
             JoinAll(ord, Len(recs)).vrps = result.vrps

C10_Witness ==
    /\ pc = "returned"
    /\ Len(recs) = 2
    /\ AllJoinedOk
    /\ recs[1].produced.vrps = {Vrp(1)}
    /\ recs[2].produced.vrps = {Vrp(1), Vrp(2)}
    /\ result.vrps = {Vrp(1), Vrp(2)}

\* the records still linked in the threads list
Listed == { threads[k] : k \in 1 .. Len(threads) }

\* C19: every worker thread that was created is joined before its record is
\* freed, no record is freed more than once, and no freed record is still
\* reachable from the threads list; also when a later pthread_create fails.
C19_ThreadRecordLifetime ==
    \A i \in Workers :
        /\ recs[i].frees <= 1
        /\ (recs[i].frees >= 1 /\ recs[i].worker # "none") => recs[i].joined
        /\ (i \in Listed) => recs[i].frees = 0

====
